---- MODULE Spec2Model ----
(***************************************************************************)
(* Lending bot: tool registry (tools.py), tool dispatcher and assistant    *)
(* runner (conversation_utils.py).                                         *)
(*                                                                         *)
(* Python strings built with f-strings are modelled as sequences of tokens *)
(* (the literal pieces and the interpolated values, in order), so that     *)
(* "the output contains the tool name" is a statement about the tokens.    *)
(* Exceptions are modelled as an outcome of the operation that raises.     *)
(***************************************************************************)
EXTENDS Integers, Sequences, FiniteSets, TLC

VARIABLES
    \* ---- ToolDispatcher.handle_step called on its own -------------------
    dpc,          \* "idle" | "ready" | "done"
    run_obj,      \* the tool_calls of the run object handed to handle_step
    step,         \* what handle_step did: returned outputs or raised
    \* ---- AssistantRunner.run (one conversation turn) --------------------
    pc,           \* position in run(): idle/start/post/create_run/loop/done
    thread_id,    \* argument thread_id ("None" when absent)
    user_message, \* argument user_message
    thread,       \* local `thread` (its id)
    run,          \* local `run`: [id, status, tool_calls]
    outcome,      \* how run() ended: returned text or raised exception
    invoked,      \* call ids whose local tool function body was executed
    log,          \* the remote calls issued by this turn, with responses
    iterations,   \* number of passes through the while loop so far
    tracing,      \* TRUE: log/invoked/iterations are recorded (and bounded)
    \* ---- the remote service ---------------------------------------------
    threads,      \* thread id -> [exists, msgs] (history, oldest first)
    \* ---- two calls of AssistantRunner.run in separate call contexts -----
    cturn,        \* turn -> the locals of that call of run() and its log
    \* ---- ToolRegistry ----------------------------------------------------
    rpc,          \* "idle" | "ready"
    tools,        \* ToolRegistry._tools
    reg_exc,      \* exception raised by the last registration ("none")
    reg_calls,    \* number of registration calls made so far
    reg_hist,     \* the registration calls made on the registry, in order
    \* ---- LendingBotPipeline (main_model.py) ------------------------------
    fpc,             \* position in __init__ / "built" / "raised" / "idle"
    temp_files,      \* argument temp_files: the paths, each existing or not
    vector_store_id, \* argument / local vector_store_id ("None" when absent)
    uploaded_ids,    \* local uploaded_ids of _index_temp_files
    handles,         \* file objects opened by _index_temp_files, still open
    vs,              \* local vs of _index_temp_files: [id, status]
    polls,           \* passes through the polling loop of _index_temp_files
    flog,            \* the remote calls of __init__, with their responses
    fexc,            \* exception that left __init__ ("none")
    assistant,       \* what assistants.create was called with
    facade_calls     \* calls of LendingBotPipeline.run made so far

vars == <<dpc, run_obj, step, pc, thread_id, user_message, thread, run,
          outcome, invoked, log, iterations, tracing, threads, cturn,
          rpc, tools, reg_exc, reg_calls, reg_hist,
          fpc, temp_files, vector_store_id, uploaded_ids, handles, vs, polls,
          flog, fexc, assistant, facade_calls>>

disp_vars == <<dpc, run_obj, step>>

run_vars == <<pc, thread_id, user_message, thread, run, outcome, invoked,
              log, iterations, tracing, threads>>

reg_vars == <<rpc, tools, reg_exc, reg_calls, reg_hist>>

conc_vars == <<cturn>>

fac_vars == <<fpc, temp_files, vector_store_id, uploaded_ids, handles, vs,
              polls, flog, fexc, assistant, facade_calls>>

-----------------------------------------------------------------------------
(* Bounds *)

MaxBatch == 2

MaxRunBatch == 2

MaxIterations == 3

MaxRegCalls == 3

MaxHistory == 2

MaxConcIterations == 2

MaxFiles == 2

MaxIngestPolls == 2

MaxFacadeCalls == 2

MaxFacadeIterations == 1

-----------------------------------------------------------------------------
(* Tool calls and their arguments *)

ArgKeys ==
    {"query", "freshness_days", "loanType", "fico", "ltv",
     "borrowerId", "templateId"}

Absent == "<absent>"

\* call.function.arguments is handed to `**args`: either a mapping (key ->
\* value, Absent for keys it does not have) or something that is no mapping
\* (the JSON text of the arguments).
MkArgs(r) ==
    [mapping |-> TRUE,
     kv |-> [k \in ArgKeys |-> IF k \in DOMAIN r THEN r[k] ELSE Absent]]

RawArgs ==
    [mapping |-> FALSE, kv |-> [k \in ArgKeys |-> Absent]]

EmptyArgs ==
    [mapping |-> TRUE, kv |-> [k \in ArgKeys |-> Absent]]

SearchArgs == MkArgs([query |-> "rates"])

SearchFreshArgs == MkArgs([query |-> "rates", freshness_days |-> "7"])

RateArgs == MkArgs([loanType |-> "30yr_fixed", fico |-> "740", ltv |-> "0.8"])

DocArgs == MkArgs([borrowerId |-> "b1", templateId |-> "t9"])

ArgChoices ==
    {SearchArgs, SearchFreshArgs, RateArgs, DocArgs, EmptyArgs, RawArgs}

ToolNames == {"webSearch", "getRateSheet", "createLoanDoc", "sendFax"}

Present(args) == {k \in ArgKeys : args.kv[k] # Absent}

\* f(**args) binds when args is a mapping, every parameter without a default
\* has a key, and no key is outside the parameters; otherwise TypeError.
Binds(args, required, optional) ==
    /\ args.mapping
    /\ required \subseteq Present(args)
    /\ Present(args) \subseteq (required \cup optional)

web_search(args) ==
    IF Binds(args, {"query"}, {"freshness_days"})
    THEN [raised |-> FALSE,
          value |-> <<"<mock WebSearch results for '", args.kv["query"],
                      "', freshness=",
                      IF args.kv["freshness_days"] = Absent
                      THEN "None" ELSE args.kv["freshness_days"],
                      ">">>]
    ELSE [raised |-> TRUE, value |-> <<"TypeError", "web_search">>]

get_rate_sheet(args) ==
    IF Binds(args, {"loanType", "fico", "ltv"}, {})
    THEN [raised |-> FALSE,
          value |-> <<"RateSheet mock -> ", args.kv["loanType"], "|FICO ",
                      args.kv["fico"], "|LTV ", args.kv["ltv"],
                      " => 6.25%/0.2 pts">>]
    ELSE [raised |-> TRUE, value |-> <<"TypeError", "get_rate_sheet">>]

create_loan_doc(args) ==
    IF Binds(args, {"borrowerId", "templateId"}, {})
    THEN [raised |-> FALSE,
          value |-> <<"file_mock_", args.kv["borrowerId"], "_",
                      args.kv["templateId"]>>]
    ELSE [raised |-> TRUE, value |-> <<"TypeError", "create_loan_doc">>]

UnknownToolOutput(name) == <<"Unknown tool ", name>>

\* One pass of the for loop body: which branch the name takes and what the
\* branch evaluates to.  known = a local tool function was called.
DispatchCall(call) ==
    IF call.name = "webSearch"
    THEN [known |-> TRUE, res |-> web_search(call.arguments)]
    ELSE IF call.name = "getRateSheet"
    THEN [known |-> TRUE, res |-> get_rate_sheet(call.arguments)]
    ELSE IF call.name = "createLoanDoc"
    THEN [known |-> TRUE, res |-> create_loan_doc(call.arguments)]
    ELSE [known |-> FALSE,
          res |-> [raised |-> FALSE, value |-> UnknownToolOutput(call.name)]]

RECURSIVE HandleLoop(_, _, _)
HandleLoop(calls, outputs, ran) ==
    IF calls = <<>>
    THEN [raised |-> FALSE, exc |-> <<>>, outputs |-> outputs, ran |-> ran]
    ELSE LET call == Head(calls)
             d == DispatchCall(call)
         IN IF d.res.raised
            \* the exception leaves handle_step; `outputs` is lost
            THEN [raised |-> TRUE, exc |-> d.res.value, outputs |-> <<>>,
                  ran |-> ran]
            ELSE HandleLoop(Tail(calls),
                            Append(outputs, [tool_call_id |-> call.id,
                                             output |-> d.res.value]),
                            IF d.known THEN Append(ran, call.id) ELSE ran)

handle_step(tool_calls) == HandleLoop(tool_calls, <<>>, <<>>)

NoStep == [raised |-> FALSE, exc |-> <<>>, outputs |-> <<>>, ran |-> <<>>]

-----------------------------------------------------------------------------
(* Inputs of the dispatcher specification *)

Calls(ids) ==
    [id : ids, name : ToolNames, arguments : ArgChoices]

SeqsUpTo(S, n) == UNION {[1..k -> S] : k \in 0..n}

DistinctIds(calls) ==
    \A i, j \in 1..Len(calls) : calls[i].id = calls[j].id => i = j

DispBatches ==
    {b \in SeqsUpTo(Calls(1..MaxBatch), MaxBatch) : DistinctIds(b)}

-----------------------------------------------------------------------------
(* The remote service, as run() sees it *)

\* The ids the service hands out for new threads, in the order it does.
ThreadOrder == <<"t1", "t2", "t3", "t4">>

ThreadIds == {ThreadOrder[i] : i \in DOMAIN ThreadOrder}

UserMessages == {"What is the 30yr rate?", "And with FICO 740?"}

TextPart(v) == [type |-> "text", text |-> [value |-> v]]

Message(role, parts) == [role |-> role, content |-> parts]

OldHistory ==
    <<Message("user", <<TextPart("Hello")>>),
      Message("assistant", <<TextPart("Hi, how can I help?")>>)>>

\* What the assistant may have written when a run completes.
Replies ==
    {<<TextPart("6.25% / 0.2 pts")>>,
     <<TextPart("Per the rate sheet:"), TextPart("6.25% / 0.2 pts")>>}

NoThread == [exists |-> FALSE, msgs |-> <<>>]

Statuses ==
    {"queued", "in_progress", "requires_action", "completed",
     "failed", "cancelled", "expired"}

FailureStatuses == {"failed", "cancelled", "expired"}

\* The tool calls the service asks for in a run of the turn.
RunCallKinds ==
    {[name |-> "getRateSheet", arguments |-> RateArgs],
     [name |-> "sendFax", arguments |-> EmptyArgs],
     [name |-> "webSearch", arguments |-> RawArgs]}

Range(s) == {s[i] : i \in DOMAIN s}

IssuedIds(l) == UNION {{c.id : c \in Range(l[i].tool_calls)} : i \in DOMAIN l}

\* Call ids are assigned by the service and unique within a run.
RunBatches(base) ==
    {[i \in DOMAIN s |-> [id |-> base + i, name |-> s[i].name,
                            arguments |-> s[i].arguments]] :
        s \in SeqsUpTo(RunCallKinds, MaxRunBatch)}

\* The run objects a runs.create / runs.retrieve / submit_tool_outputs call
\* may return: any status; pending tool calls only with requires_action.
RunResponses(base) ==
    [id : {"r1"}, status : Statuses \ {"requires_action"}, tool_calls : {<<>>}]
    \cup [id : {"r1"}, status : {"requires_action"},
          tool_calls : RunBatches(base)]

\* The run objects considered for the turns made through the facade.
FacadeResponses(base) ==
    [id : {"r1"}, status : {"in_progress", "completed", "failed"},
     tool_calls : {<<>>}]
    \cup [id : {"r1"}, status : {"requires_action"},
          tool_calls : {<<[id |-> base + 1, name |-> k.name,
                           arguments |-> k.arguments]>> :
                           k \in {c \in RunCallKinds :
                                     c.name # "sendFax"}}]

\* The responses of the service to the runner's run calls.
Responses(base) ==
    IF fpc = "idle" THEN RunResponses(base) ELSE FacadeResponses(base)

\* The number of loop passes followed in a turn.
IterationCap ==
    IF fpc = "idle" THEN MaxIterations ELSE MaxFacadeIterations

\* The service appends the assistant's reply (if any) when a run completes.
HistoriesAfter(ths, th, status) ==
    IF status = "completed"
    THEN {ths} \cup
         {[ths EXCEPT ![th].msgs = Append(@, Message("assistant", parts))] :
             parts \in Replies}
    ELSE {ths}

Reverse(s) == [i \in 1..Len(s) |-> s[Len(s) + 1 - i]]

\* messages.list(order=...): the history oldest first for "asc", newest
\* first otherwise.
ListMessages(msgs, order) == IF order = "asc" THEN msgs ELSE Reverse(msgs)

Entry(op, th, rn, content, order, outputs, status, calls) ==
    [op |-> op, thread |-> th, run |-> rn, content |-> content,
     order |-> order, tool_outputs |-> outputs, status |-> status,
     tool_calls |-> calls]

Rec(e) == IF tracing THEN Append(log, e) ELSE log

NoRun == [id |-> "none", status |-> "none", tool_calls |-> <<>>]

NoOutcome == [kind |-> "none", text |-> "", exc |-> <<>>]

Returned(text) == [kind |-> "returned", text |-> text, exc |-> <<>>]

Raised(exc) == [kind |-> "raised", text |-> "", exc |-> exc]

-----------------------------------------------------------------------------
(* AssistantRunner.run *)

\* Variant: the loop also goes on while the run is failed.
LoopContinuesOnFailed(status) ==
    status \in {"queued", "in_progress", "requires_action", "failed"}

\* while run.status in {"queued", "in_progress", "requires_action"}
LoopContinues(status) ==
    status \in {"queued", "in_progress", "requires_action"}

\* Variant: the tool branch is taken for every status but queued.
NeedsActionUnlessQueued(status) == status # "queued"

\* if run.status == "requires_action"
NeedsAction(status) == status = "requires_action"

\* Variant: the first message of the listing is read instead of the last.
final_text_of_first(data) == data[1].content[1].text.value

\* msgs.data[-1].content[0].text.value
final_text(data) == data[Len(data)].content[1].text.value

\* Variant: a thread is created whatever thread_id is.
ThreadGivenNever(tid) == FALSE

\* thread_id is None / else
ThreadGiven(tid) == tid # "None"

\* threads.create() returns a thread that did not exist before.
NewThreadId ==
    LET free == {i \in DOMAIN ThreadOrder : ~threads[ThreadOrder[i]].exists}
    IN ThreadOrder[CHOOSE i \in free : \A j \in free : i <= j]

\* 1) ensure we have a thread
run_ensure_thread ==
    /\ pc = "start"
    /\ IF ~ThreadGiven(thread_id)
       THEN /\ thread' = NewThreadId
            /\ threads' = [threads EXCEPT ![NewThreadId] =
                              [exists |-> TRUE, msgs |-> <<>>]]
            /\ log' = Rec(Entry("threads.create", NewThreadId, "none", "",
                                "", <<>>, "ok", <<>>))
            /\ pc' = "post"
            /\ outcome' = outcome
       ELSE IF threads[thread_id].exists
       THEN /\ thread' = thread_id
            /\ log' = Rec(Entry("threads.retrieve", thread_id, "none", "",
                                "", <<>>, "ok", <<>>))
            /\ pc' = "post"
            /\ UNCHANGED <<threads, outcome>>
       ELSE \* the service's error leaves run()
            /\ log' = Rec(Entry("threads.retrieve", thread_id, "none", "",
                                "", <<>>, "error", <<>>))
            /\ outcome' = Raised(<<"NotFoundError", thread_id>>)
            /\ pc' = "done"
            /\ UNCHANGED <<thread, threads>>
    /\ UNCHANGED <<thread_id, user_message, run, invoked, iterations, tracing>>
    /\ UNCHANGED <<disp_vars, reg_vars, conc_vars, fac_vars>>

\* 2) post user message
run_post_message ==
    /\ pc = "post"
    /\ threads' = [threads EXCEPT ![thread].msgs =
                      Append(@, Message("user", <<TextPart(user_message)>>))]
    /\ log' = Rec(Entry("messages.create", thread, "none", user_message,
                        "", <<>>, "ok", <<>>))
    /\ pc' = "create_run"
    /\ UNCHANGED <<thread_id, user_message, thread, run, outcome, invoked,
                   iterations, tracing>>
    /\ UNCHANGED <<disp_vars, reg_vars, conc_vars, fac_vars>>

\* 3) start run
run_start ==
    /\ pc = "create_run"
    /\ \E resp \in Responses(0) :
         /\ run' = resp
         /\ threads' \in HistoriesAfter(threads, thread, resp.status)
         /\ log' = Rec(Entry("runs.create", thread, resp.id, "", "", <<>>,
                             resp.status, resp.tool_calls))
    /\ pc' = "loop"
    /\ UNCHANGED <<thread_id, user_message, thread, outcome, invoked,
                   iterations, tracing>>
    /\ UNCHANGED <<disp_vars, reg_vars, conc_vars, fac_vars>>

NextBase == IF tracing THEN Cardinality(IssuedIds(log)) ELSE 0

\* 4) loop, requires_action branch: handle_step, then submit_tool_outputs
run_loop_requires_action ==
    /\ pc = "loop"
    /\ LoopContinues(run.status)
    /\ NeedsAction(run.status)
    /\ tracing => iterations < IterationCap
    /\ LET outputs == handle_step(run.tool_calls)
       IN /\ invoked' = IF tracing THEN invoked \o outputs.ran ELSE invoked
          /\ IF outputs.raised
             THEN /\ outcome' = Raised(outputs.exc)
                  /\ pc' = "done"
                  /\ UNCHANGED <<run, threads, log>>
             ELSE /\ \E resp \in Responses(NextBase) :
                       /\ run' = resp
                       /\ threads' \in
                            HistoriesAfter(threads, thread, resp.status)
                       /\ log' = Rec(Entry("runs.submit_tool_outputs", thread,
                                           run.id, "", "", outputs.outputs,
                                           resp.status, resp.tool_calls))
                  /\ pc' = "loop"
                  /\ outcome' = outcome
    /\ iterations' = IF tracing THEN iterations + 1 ELSE iterations
    /\ UNCHANGED <<thread_id, user_message, thread, tracing>>
    /\ UNCHANGED <<disp_vars, reg_vars, conc_vars, fac_vars>>

\* 4) loop, other branch: sleep, then runs.retrieve
run_loop_poll ==
    /\ pc = "loop"
    /\ LoopContinues(run.status)
    /\ ~NeedsAction(run.status)
    /\ tracing => iterations < IterationCap
    /\ \E resp \in Responses(NextBase) :
         /\ run' = resp
         /\ threads' \in HistoriesAfter(threads, thread, resp.status)
         /\ log' = Rec(Entry("runs.retrieve", thread, run.id, "", "", <<>>,
                             resp.status, resp.tool_calls))
    /\ iterations' = IF tracing THEN iterations + 1 ELSE iterations
    /\ UNCHANGED <<pc, thread_id, user_message, thread, outcome, invoked,
                   tracing>>
    /\ UNCHANGED <<disp_vars, reg_vars, conc_vars, fac_vars>>

\* 5) the loop is left: fetch the final message
run_fetch_final ==
    /\ pc = "loop"
    /\ ~LoopContinues(run.status)
    /\ LET msgs == ListMessages(threads[thread].msgs, "asc")
       IN /\ log' = Rec(Entry("messages.list", thread, "none", "", "asc",
                              <<>>, "ok", <<>>))
          /\ outcome' = IF msgs = <<>>
                        THEN Raised(<<"IndexError">>)
                        ELSE Returned(final_text(msgs))
    /\ pc' = "done"
    /\ UNCHANGED <<thread_id, user_message, thread, run, invoked, iterations,
                   tracing, threads>>
    /\ UNCHANGED <<disp_vars, reg_vars, conc_vars, fac_vars>>

-----------------------------------------------------------------------------
(* Specifications of one conversation turn *)

DispIdle == dpc = "idle" /\ run_obj = <<>> /\ step = NoStep

ConcIdle == cturn = <<>>

NoStore == [id |-> "none", status |-> "none"]

NoAssistant == [created |-> FALSE, tools |-> <<>>, vector_store_ids |-> <<>>]

FacLocalsIdle ==
    /\ temp_files = <<>>
    /\ vector_store_id = "None"
    /\ uploaded_ids = <<>>
    /\ handles = 0
    /\ vs = NoStore
    /\ polls = 0
    /\ flog = <<>>
    /\ fexc = "none"
    /\ assistant = NoAssistant
    /\ facade_calls = 0

FacIdle == fpc = "idle" /\ FacLocalsIdle

RegIdle ==
    /\ rpc = "idle"
    /\ tools = <<>>
    /\ reg_exc = "none"
    /\ reg_calls = 0
    /\ reg_hist = <<>>

RunInit(trace) ==
    /\ pc = "start"
    /\ thread_id \in {"None", "t1"}
    /\ user_message \in UserMessages
    /\ thread = "none"
    /\ run = NoRun
    /\ outcome = NoOutcome
    /\ invoked = <<>>
    /\ log = <<>>
    /\ iterations = 0
    /\ tracing = trace
    /\ threads \in {[t \in ThreadIds |-> NoThread],
                    [t \in ThreadIds |->
                        IF t = "t1" THEN [exists |-> TRUE, msgs |-> OldHistory]
                        ELSE NoThread]}

Init == RunInit(TRUE) /\ DispIdle /\ RegIdle /\ ConcIdle /\ FacIdle

Next ==
    \/ run_ensure_thread
    \/ run_post_message
    \/ run_start
    \/ run_loop_requires_action
    \/ run_loop_poll
    \/ run_fetch_final

Spec == Init /\ [][Next]_vars

\* The same turn without the recording of the log: the loop is not cut off.
LiveInit ==
    RunInit(FALSE) /\ DispIdle /\ RegIdle /\ ConcIdle /\ FacIdle

LiveSpec == LiveInit /\ [][Next]_vars /\ WF_vars(Next)

-----------------------------------------------------------------------------
(* Step 5 of run() on its own: the loop has just been left on some status *)
(* and the thread holds whatever history the service has for it at that   *)
(* moment (messages can be removed through the service by other clients). *)

FetchMessages ==
    {Message("user", <<TextPart("What is the 30yr rate?")>>)}
    \cup {Message("assistant", parts) : parts \in Replies}

FetchHistories == SeqsUpTo(FetchMessages, MaxHistory)

FetchInit ==
    /\ pc = "loop"
    /\ thread_id = "t1"
    /\ user_message \in UserMessages
    /\ thread = "t1"
    /\ run \in [id : {"r1"}, status : {st \in Statuses : ~LoopContinues(st)},
                 tool_calls : {<<>>}]
    /\ outcome = NoOutcome
    /\ invoked = <<>>
    /\ log = <<Entry("threads.retrieve", "t1", "none", "", "", <<>>, "ok",
                      <<>>),
                Entry("messages.create", "t1", "none", user_message, "",
                      <<>>, "ok", <<>>),
                Entry("runs.create", "t1", "r1", "", "", <<>>, run.status,
                      <<>>)>>
    /\ iterations = 0
    /\ tracing = TRUE
    /\ \E h \in FetchHistories :
          threads = [t \in ThreadIds |->
                        IF t = "t1" THEN [exists |-> TRUE, msgs |-> h]
                        ELSE NoThread]
    /\ DispIdle
    /\ RegIdle
    /\ ConcIdle
    /\ FacIdle

FetchNext == run_fetch_final

FetchSpec == FetchInit /\ [][FetchNext]_vars

-----------------------------------------------------------------------------
(* handle_step on its own *)

RunLocalsIdle ==
    /\ pc = "idle"
    /\ thread_id = "None"
    /\ user_message = ""
    /\ thread = "none"
    /\ run = NoRun
    /\ outcome = NoOutcome
    /\ invoked = <<>>
    /\ log = <<>>
    /\ iterations = 0
    /\ tracing = TRUE

RunIdle ==
    /\ RunLocalsIdle
    /\ threads = [t \in ThreadIds |-> NoThread]

DispInit ==
    /\ dpc = "ready"
    /\ run_obj \in DispBatches
    /\ step = NoStep
    /\ RunIdle
    /\ RegIdle
    /\ ConcIdle
    /\ FacIdle

disp_handle_step ==
    /\ dpc = "ready"
    /\ step' = handle_step(run_obj)
    /\ dpc' = "done"
    /\ UNCHANGED <<run_obj, run_vars, reg_vars, conc_vars, fac_vars>>

DispNext == disp_handle_step

DispSpec == DispInit /\ [][DispNext]_vars

-----------------------------------------------------------------------------
(* ToolSchema and ToolRegistry *)

ToolSchema(name, description, properties, required) ==
    [name |-> name, description |-> description, properties |-> properties,
     required |-> required]

to_openai_dict(self) ==
    [type |-> "function",
     function |->
        [name |-> self.name,
         description |-> self.description,
         parameters |-> [type |-> "object",
                         properties |-> self.properties,
                         required |-> self.required]]]

\* An element of _tools is a ToolSchema object or a dict {"type": tag}.
SchemaEntry(schema) == [isdict |-> FALSE, value |-> schema]

DictEntry(tag) == [isdict |-> TRUE, value |-> [type |-> tag]]

BuiltinTags == {"code_interpreter", "file_search"}

\* add_function / add_builtin as functions of _tools: the new _tools and the
\* exception raised ("none" when the call returns).
add_function(ts, schema) ==
    [tools |-> Append(ts, SchemaEntry(schema)), exc |-> "none"]

\* Variant: the tag is appended without the membership test.
add_builtin_unchecked(ts, builtin_name) ==
    [tools |-> Append(ts, DictEntry(builtin_name)), exc |-> "none"]

add_builtin(ts, builtin_name) ==
    IF builtin_name \notin BuiltinTags
    THEN [tools |-> ts, exc |-> "ValueError"]
    ELSE [tools |-> Append(ts, DictEntry(builtin_name)), exc |-> "none"]

WebSearchSchema ==
    ToolSchema("webSearch",
               "Real-time Bing search for rates, regulations, or news.",
               [query |-> [type |-> "string", description |-> "Search query."],
                freshness_days |->
                    [type |-> "integer",
                     description |->
                        "Restrict results to the last N days (optional)."]],
               <<"query">>)

RateSheetSchema ==
    ToolSchema("getRateSheet",
               "Fetch the latest pricing for a loan scenario.",
               [loanType |-> [type |-> "string"],
                fico |-> [type |-> "integer"],
                ltv |-> [type |-> "number"]],
               <<"loanType", "fico", "ltv">>)

LoanDocSchema ==
    ToolSchema("createLoanDoc",
               "Generate or fill a lending document and return the file_id.",
               [borrowerId |-> [type |-> "string"],
                templateId |-> [type |-> "string"]],
               <<"borrowerId", "templateId">>)

\* ToolRegistry.default()
default ==
    LET r0 == <<>>
        r1 == add_builtin(r0, "code_interpreter").tools
        r2 == add_builtin(r1, "file_search").tools
        r3 == add_function(r2, WebSearchSchema).tools
        r4 == add_function(r3, RateSheetSchema).tools
        r5 == add_function(r4, LoanDocSchema).tools
    IN r5

\* Variant: the payload is built newest first.
openai_tools_reversed(ts) ==
    [i \in 1..Len(ts) |->
        IF ts[Len(ts) + 1 - i].isdict
        THEN ts[Len(ts) + 1 - i].value
        ELSE to_openai_dict(ts[Len(ts) + 1 - i].value)]

openai_tools(ts) ==
    [i \in 1..Len(ts) |->
        IF ts[i].isdict THEN ts[i].value ELSE to_openai_dict(ts[i].value)]

\* A registration call as it was made: the method, its argument and the
\* exception it raised ("none" when it returned).
NoSchema == ToolSchema("", "", <<>>, <<>>)

FunctionCall(schema, exc) ==
    [op |-> "add_function", tag |-> "", schema |-> schema, exc |-> exc]

BuiltinCall(tag, exc) ==
    [op |-> "add_builtin", tag |-> tag, schema |-> NoSchema, exc |-> exc]

\* The calls ToolRegistry.default() makes.
DefaultCalls ==
    <<BuiltinCall("code_interpreter", "none"),
      BuiltinCall("file_search", "none"),
      FunctionCall(WebSearchSchema, "none"),
      FunctionCall(RateSheetSchema, "none"),
      FunctionCall(LoanDocSchema, "none")>>

\* Registrations tried on a registry: the default schemas, a second schema
\* that reuses the name webSearch, the two built-in tags and a tag outside.
OtherSearchSchema ==
    ToolSchema("webSearch", "Search an internal knowledge base.",
               [query |-> [type |-> "string", description |-> "Search query."]],
               <<"query">>)

Schemas == {WebSearchSchema, RateSheetSchema, OtherSearchSchema}

TagInputs == BuiltinTags \cup {"browser"}

reg_add_function ==
    /\ rpc = "ready"
    /\ reg_calls < MaxRegCalls
    /\ \E schema \in Schemas :
         LET r == add_function(tools, schema)
         IN /\ tools' = r.tools
            /\ reg_exc' = r.exc
            /\ reg_hist' = Append(reg_hist, FunctionCall(schema, r.exc))
    /\ reg_calls' = reg_calls + 1
    /\ UNCHANGED <<rpc, disp_vars, run_vars, conc_vars, fac_vars>>

reg_add_builtin ==
    /\ rpc = "ready"
    /\ reg_calls < MaxRegCalls
    /\ \E tag \in TagInputs :
         LET r == add_builtin(tools, tag)
         IN /\ tools' = r.tools
            /\ reg_exc' = r.exc
            /\ reg_hist' = Append(reg_hist, BuiltinCall(tag, r.exc))
    /\ reg_calls' = reg_calls + 1
    /\ UNCHANGED <<rpc, disp_vars, run_vars, conc_vars, fac_vars>>

\* A registry as constructed: ToolRegistry() or ToolRegistry.default().
RegInit ==
    /\ rpc = "ready"
    /\ \/ tools = <<>> /\ reg_hist = <<>>
       \/ tools = default /\ reg_hist = DefaultCalls
    /\ reg_exc = "none"
    /\ reg_calls = 0
    /\ DispIdle
    /\ RunIdle
    /\ ConcIdle
    /\ FacIdle

RegNext == reg_add_function \/ reg_add_builtin

RegSpec == RegInit /\ [][RegNext]_vars

-----------------------------------------------------------------------------
(* Properties of handle_step (checked under DispSpec) *)

KnownToolNames == {"webSearch", "getRateSheet", "createLoanDoc"}

Contains(tokens, t) == \E k \in DOMAIN tokens : tokens[k] = t

CallRaises(call) == DispatchCall(call).res.raised

\* C1: for every batch, handle_step returns a list with exactly one result
\* per request, in request order, the i-th result carrying the i-th
\* request's call id.
C1_OneResultPerRequest ==
    dpc = "done" =>
        /\ ~step.raised
        /\ Len(step.outputs) = Len(run_obj)
        /\ \A i \in 1..Len(run_obj) :
              step.outputs[i].tool_call_id = run_obj[i].id

\* C2: a tool function that raises does not make handle_step raise: the
\* batch still gets one result per request, and the result of the failing
\* call carries an error marker and the tool name.
C2_ToolExceptionContained ==
    (dpc = "done" /\ \E i \in 1..Len(run_obj) : CallRaises(run_obj[i])) =>
        /\ ~step.raised
        /\ Len(step.outputs) = Len(run_obj)
        /\ \A i \in 1..Len(run_obj) :
              /\ step.outputs[i].tool_call_id = run_obj[i].id
              /\ CallRaises(run_obj[i]) =>
                    /\ Contains(step.outputs[i].output, run_obj[i].name)
                    /\ Contains(step.outputs[i].output, "TypeError")

\* C9: every request with an unknown tool name gets a result for its call
\* id whose output holds the unknown-tool marker and the literal name, and
\* handle_step does not raise on such a batch.
C9_UnknownToolReported ==
    dpc = "done" =>
        \A i \in 1..Len(run_obj) :
            run_obj[i].name \notin KnownToolNames =>
                /\ ~step.raised
                /\ Len(step.outputs) = Len(run_obj)
                /\ step.outputs[i].tool_call_id = run_obj[i].id
                /\ Contains(step.outputs[i].output, "Unknown tool ")
                /\ Contains(step.outputs[i].output, run_obj[i].name)

-----------------------------------------------------------------------------
(* Properties of one turn of run() (checked under Spec, C5 under LiveSpec) *)

RunOps == {"runs.create", "runs.retrieve", "runs.submit_tool_outputs"}

LoopOps == {"runs.retrieve", "runs.submit_tool_outputs"}

ActiveStatuses == {"queued", "in_progress", "requires_action"}

TerminalStatuses == {"completed", "failed", "cancelled", "expired"}

IsObservation(e) == e.op \in RunOps

OutputIds(outs) == {outs[k].tool_call_id : k \in DOMAIN outs}

CallIdsOf(calls) == {calls[k].id : k \in DOMAIN calls}

Count(op) == Cardinality({i \in DOMAIN log : log[i].op = op})

\* C3: a turn whose loop ended on failed, cancelled or expired ends with a
\* RunFailedError carrying that status, returns no text, and started one run.
C3_FailedTurnRaises ==
    (pc = "done" /\ run.status \in FailureStatuses) =>
        /\ outcome.kind = "raised"
        /\ outcome.exc = <<"RunFailedError", run.status>>
        /\ Count("runs.create") = 1

\* C4: a status retrieve or a tool-output submission is issued only right
\* after an observation of queued, in_progress or requires_action; after an
\* observation of completed, failed, cancelled or expired none follows, and
\* the loop is not left while the observed status is one of the first three.
C4_LoopOnlyWhileActive ==
    /\ \A i \in DOMAIN log :
          log[i].op \in LoopOps =>
              /\ i > 1
              /\ IsObservation(log[i - 1])
              /\ log[i - 1].status \in ActiveStatuses
    /\ \A i, j \in DOMAIN log :
          (i < j /\ IsObservation(log[i])
                 /\ log[i].status \in TerminalStatuses) =>
              log[j].op \notin LoopOps
    /\ \A i \in DOMAIN log :
          log[i].op = "messages.list" =>
              /\ i > 1
              /\ IsObservation(log[i - 1])
              /\ log[i - 1].status \in TerminalStatuses

C4_Witness ==
    /\ pc = "done"
    /\ Len(log) >= 3
    /\ log[Len(log)].op = "messages.list"
    /\ log[Len(log) - 1].op = "runs.retrieve"
    /\ log[Len(log) - 1].status = "expired"
    /\ log[Len(log) - 2].status = "in_progress"

\* C5: run() does not loop forever: every turn comes to an end, also when
\* the service never reports a terminal status.
C5_TurnEnds == <>(pc = "done")

\* C6: every requires_action observation is answered by one submission
\* whose call ids are exactly the pending call ids of that observation.
C6_EveryBatchAnswered ==
    /\ \A i \in DOMAIN log :
          (IsObservation(log[i]) /\ log[i].status = "requires_action") =>
              IF i < Len(log)
              THEN /\ log[i + 1].op = "runs.submit_tool_outputs"
                   /\ Len(log[i + 1].tool_outputs) = Len(log[i].tool_calls)
                   /\ OutputIds(log[i + 1].tool_outputs)
                        = CallIdsOf(log[i].tool_calls)
              ELSE pc # "done"
    /\ \A i \in DOMAIN log :
          log[i].op = "runs.submit_tool_outputs" =>
              /\ i > 1
              /\ OutputIds(log[i].tool_outputs)
                   = CallIdsOf(log[i - 1].tool_calls)

\* C7: a submission is issued only when the most recently observed status
\* is requires_action; on a run first observed as failed there is no
\* submission and no local tool function is executed.
C7_SubmitOnlyOnRequiresAction ==
    /\ \A i \in DOMAIN log :
          log[i].op = "runs.submit_tool_outputs" =>
              /\ i > 1
              /\ IsObservation(log[i - 1])
              /\ log[i - 1].status = "requires_action"
    /\ (\E i \in DOMAIN log :
           log[i].op = "runs.create" /\ log[i].status = "failed") =>
          /\ Count("runs.submit_tool_outputs") = 0
          /\ invoked = <<>>
    /\ invoked # <<>> =>
          \E i \in DOMAIN log :
              IsObservation(log[i]) /\ log[i].status = "requires_action"

C7_Witness ==
    /\ pc = "done"
    /\ outcome.kind # "none"
    /\ \E i \in DOMAIN log :
          log[i].op = "runs.create" /\ log[i].status = "failed"

LastMessage(th) == threads[th].msgs[Len(threads[th].msgs)]

-----------------------------------------------------------------------------
(* Properties of the registry (checked under RegSpec) *)

CustomNames(ts) == {ts[i].value.name : i \in {k \in DOMAIN ts : ~ts[k].isdict}}

CustomCount(ts) == Cardinality({k \in DOMAIN ts : ~ts[k].isdict})

ExportedNames(payload) ==
    {payload[i].function.name :
        i \in {k \in DOMAIN payload : payload[k].type = "function"}}

ExportedCount(payload) ==
    Cardinality({k \in DOMAIN payload : payload[k].type = "function"})

\* C10: registering a custom tool whose name is already in the registry
\* fails and leaves the registry unchanged, so no two custom tools of the
\* registry, or of the exported schema, have the same name.
C10_CustomNamesUnique ==
    /\ Cardinality(CustomNames(tools)) = CustomCount(tools)
    /\ Cardinality(ExportedNames(openai_tools(tools)))
         = ExportedCount(openai_tools(tools))


Succeeded(hist) == SelectSeq(hist, LAMBDA c : c.exc = "none")

\* C11: a registration of a built-in tag outside {code_interpreter,
\* file_search} raises and leaves the registry as it was, so every built-in
\* entry of the registry and of the exported schema carries one of the two
\* tags.
C11_OnlyKnownBuiltins ==
    /\ \A i \in DOMAIN reg_hist :
          (reg_hist[i].op = "add_builtin"
              /\ reg_hist[i].tag \notin {"code_interpreter", "file_search"})
            => reg_hist[i].exc = "ValueError"
    /\ Len(tools) = Len(Succeeded(reg_hist))
    /\ \A i \in DOMAIN tools :
          tools[i].isdict =>
              tools[i].value.type \in {"code_interpreter", "file_search"}
    /\ \A i \in DOMAIN openai_tools(tools) :
          openai_tools(tools)[i].type
              \in {"code_interpreter", "file_search", "function"}

C11_Witness ==
    /\ Len(reg_hist) >= 2
    /\ reg_hist[Len(reg_hist)].op = "add_builtin"
    /\ reg_hist[Len(reg_hist)].tag = "browser"
    /\ reg_exc = "ValueError"
    /\ Len(tools) >= 1

\* C15: the exported list has one descriptor per successful registration,
\* in registration order: {"type": tag} alone for a built-in, and for a
\* custom tool a function descriptor with its name, description,
\* parameters and required list.
C15_ExportMatchesRegistrations ==
    LET ok == Succeeded(reg_hist)
        payload == openai_tools(tools)
    IN /\ Len(payload) = Len(ok)
       /\ \A i \in DOMAIN ok :
             IF ok[i].op = "add_builtin"
             THEN /\ DOMAIN payload[i] = {"type"}
                  /\ payload[i].type = ok[i].tag
             ELSE /\ DOMAIN payload[i] = {"type", "function"}
                  /\ payload[i].type = "function"
                  /\ DOMAIN payload[i].function
                       = {"name", "description", "parameters"}
                  /\ payload[i].function.name = ok[i].schema.name
                  /\ payload[i].function.description
                       = ok[i].schema.description
                  /\ payload[i].function.parameters.type = "object"
                  /\ payload[i].function.parameters.properties
                       = ok[i].schema.properties
                  /\ payload[i].function.parameters.required
                       = ok[i].schema.required

C15_Witness ==
    /\ Len(reg_hist) = 7
    /\ reg_hist[6].op = "add_function"
    /\ reg_hist[6].schema.name = "webSearch"
    /\ reg_hist[7].op = "add_builtin"
    /\ reg_hist[7].exc = "none"
    /\ Len(tools) = 7

-----------------------------------------------------------------------------
(* Further properties of one turn of run() *)

\* C12: when the retrieval of the supplied thread id fails, run() ends with
\* a ThreadResolutionError, and the turn posts no message, starts no run
\* and executes no tool.
C12_RetrieveFailureRaises ==
    (\E i \in DOMAIN log :
        log[i].op = "threads.retrieve" /\ log[i].status = "error") =>
        /\ pc = "done"
        /\ outcome.kind = "raised"
        /\ outcome.exc = <<"ThreadResolutionError", thread_id>>
        /\ Count("messages.create") = 0
        /\ Count("runs.create") = 0
        /\ invoked = <<>>

\* C13: when the run completed and the thread has no message at all, run()
\* ends with an EmptyConversationError and returns no text.
C13_EmptyThreadRaises ==
    (pc = "done" /\ run.status = "completed"
                 /\ threads[thread].msgs = <<>>) =>
        /\ outcome.kind = "raised"
        /\ outcome.exc = <<"EmptyConversationError">>

Occurrences(sq, x) == Cardinality({k \in DOMAIN sq : sq[k] = x})

\* C17: every tool call of a requires_action observation has its local tool
\* function executed exactly once in the turn (calls of an unknown name have
\* no local function; a call whose function raises has been made once).
C17_EachCallExecutedOnce ==
    /\ \A i \in DOMAIN log :
          (IsObservation(log[i]) /\ log[i].status = "requires_action"
                                 /\ (i < Len(log) \/ pc = "done")) =>
              \A k \in DOMAIN log[i].tool_calls :
                  LET c == log[i].tool_calls[k]
                  IN (c.name \in KnownToolNames /\ ~CallRaises(c)) =>
                        Occurrences(invoked, c.id) = 1
    /\ \A k \in DOMAIN invoked : Occurrences(invoked, invoked[k]) = 1

ThreadOps ==
    {"messages.create", "runs.create", "runs.retrieve",
     "runs.submit_tool_outputs", "messages.list"}

\* C19: without a thread id one thread is created and none retrieved; with
\* a thread id that thread is retrieved and none created; the message, the
\* run, every poll and submission and the final listing carry the id of the
\* resolved thread; the message is posted once, before the run is started.
C19_ThreadResolution ==
    /\ thread_id = "None" =>
          /\ Count("threads.retrieve") = 0
          /\ pc # "start" => Count("threads.create") = 1
    /\ thread_id # "None" =>
          /\ Count("threads.create") = 0
          /\ pc # "start" =>
                /\ Count("threads.retrieve") = 1
                /\ log[1].op = "threads.retrieve"
                /\ log[1].thread = thread_id
          /\ thread # "none" =>
                /\ thread = thread_id
                /\ SubSeq(threads[thread].msgs, 1, Len(OldHistory))
                     = OldHistory
    /\ \A i \in DOMAIN log :
          log[i].op \in ThreadOps =>
              /\ log[i].thread = thread
              /\ log[i].thread = log[1].thread
    /\ Count("messages.create") <= 1
    /\ \A i \in DOMAIN log :
          log[i].op = "runs.create" =>
              /\ i = 3
              /\ log[2].op = "messages.create"
              /\ log[2].content = user_message

C19_Witness ==
    /\ pc = "done"
    /\ thread_id = "t1"
    /\ thread = "t1"
    /\ outcome.kind = "returned"
    /\ Count("runs.submit_tool_outputs") >= 1
    /\ Len(threads["t1"].msgs) > Len(OldHistory)

-----------------------------------------------------------------------------
(* Two calls of AssistantRunner.run on one runner, each in its own call    *)
(* context, interleaved at every remote call.  The locals of a call live   *)
(* in cturn[t]; the runner object (assistant_id, client, tool_dispatcher)  *)
(* is never assigned by run(); the service state `threads` is shared.      *)

Turns == {1, 2}

ConcMessage(t) == IF t = 1 THEN "What is the 30yr rate?"
                  ELSE "And with FICO 740?"

\* The service names a run after the thread it runs on.
ConcRunId(th) == IF th = "t1" THEN "r1" ELSE "r2"

ConcReplyText(rid) == IF rid = "r1" THEN "answer of r1" ELSE "answer of r2"

ConcIssued(t) == Cardinality(IssuedIds(cturn[t].log))

\* Run objects the service may return to turn t: call ids are unique within
\* the run and differ between the runs.
ConcResponses(t, rid) ==
    [id : {rid}, status : {"in_progress", "completed", "failed"},
     tool_calls : {<<>>}]
    \cup {[id |-> rid, status |-> "requires_action",
           tool_calls |-> <<[id |-> 10 * t + ConcIssued(t) + 1,
                             name |-> "getRateSheet",
                             arguments |-> RateArgs]>>]}

ConcHistoriesAfter(ths, th, resp) ==
    IF resp.status = "completed"
    THEN {ths,
          [ths EXCEPT ![th].msgs =
              Append(@, Message("assistant",
                                <<TextPart(ConcReplyText(resp.id))>>))]}
    ELSE {ths}

\* Variant: the resolved thread is kept on the runner, so a call uses the
\* thread the other call resolved.
ConcThreadShared(t) ==
    IF \E u \in Turns : u # t /\ cturn[u].thread # "none"
    THEN cturn[CHOOSE u \in Turns : u # t /\ cturn[u].thread # "none"].thread
    ELSE cturn[t].thread

\* thread.id, read from the local `thread` of the call
ConcThread(t) == cturn[t].thread

ConcLocals(tid, msg) ==
    [pc |-> "start", thread_id |-> tid, user_message |-> msg,
     thread |-> "none", run |-> NoRun, outcome |-> NoOutcome,
     invoked |-> <<>>, log |-> <<>>, iterations |-> 0]

conc_ensure_thread(t) ==
    LET c == cturn[t]
    IN /\ c.pc = "start"
       /\ IF ~ThreadGiven(c.thread_id)
          THEN /\ threads' = [threads EXCEPT ![NewThreadId] =
                                 [exists |-> TRUE, msgs |-> <<>>]]
               /\ cturn' = [cturn EXCEPT ![t] =
                    [c EXCEPT !.thread = NewThreadId, !.pc = "post",
                       !.log = Append(@, Entry("threads.create", NewThreadId,
                                        "none", "", "", <<>>, "ok", <<>>))]]
          ELSE IF threads[c.thread_id].exists
          THEN /\ cturn' = [cturn EXCEPT ![t] =
                    [c EXCEPT !.thread = c.thread_id, !.pc = "post",
                       !.log = Append(@, Entry("threads.retrieve",
                                        c.thread_id, "none", "", "", <<>>,
                                        "ok", <<>>))]]
               /\ UNCHANGED threads
          ELSE /\ cturn' = [cturn EXCEPT ![t] =
                    [c EXCEPT !.pc = "done",
                       !.outcome = Raised(<<"NotFoundError", c.thread_id>>),
                       !.log = Append(@, Entry("threads.retrieve",
                                        c.thread_id, "none", "", "", <<>>,
                                        "error", <<>>))]]
               /\ UNCHANGED threads
       /\ UNCHANGED <<disp_vars, reg_vars, fac_vars, pc, thread_id,
                      user_message, thread, run, outcome, invoked, log,
                      iterations, tracing>>

conc_post_message(t) ==
    LET c == cturn[t]
        th == ConcThread(t)
    IN /\ c.pc = "post"
       /\ threads' = [threads EXCEPT ![th].msgs =
             Append(@, Message("user", <<TextPart(c.user_message)>>))]
       /\ cturn' = [cturn EXCEPT ![t] =
             [c EXCEPT !.pc = "create_run",
                !.log = Append(@, Entry("messages.create", th, "none",
                                 c.user_message, "", <<>>, "ok", <<>>))]]
       /\ UNCHANGED <<disp_vars, reg_vars, fac_vars, pc, thread_id,
                      user_message, thread, run, outcome, invoked, log,
                      iterations, tracing>>

conc_start(t) ==
    LET c == cturn[t]
        th == ConcThread(t)
    IN /\ c.pc = "create_run"
       /\ \E resp \in ConcResponses(t, ConcRunId(th)) :
            /\ threads' \in ConcHistoriesAfter(threads, th, resp)
            /\ cturn' = [cturn EXCEPT ![t] =
                  [c EXCEPT !.pc = "loop", !.run = resp,
                     !.log = Append(@, Entry("runs.create", th, resp.id, "",
                                      "", <<>>, resp.status,
                                      resp.tool_calls))]]
       /\ UNCHANGED <<disp_vars, reg_vars, fac_vars, pc, thread_id,
                      user_message, thread, run, outcome, invoked, log,
                      iterations, tracing>>

conc_loop_requires_action(t) ==
    LET c == cturn[t]
        th == ConcThread(t)
        outputs == handle_step(c.run.tool_calls)
    IN /\ c.pc = "loop"
       /\ LoopContinues(c.run.status)
       /\ NeedsAction(c.run.status)
       /\ c.iterations < MaxConcIterations
       /\ IF outputs.raised
          THEN /\ cturn' = [cturn EXCEPT ![t] =
                    [c EXCEPT !.pc = "done",
                       !.outcome = Raised(outputs.exc),
                       !.invoked = @ \o outputs.ran,
                       !.iterations = @ + 1]]
               /\ UNCHANGED threads
          ELSE \E resp \in ConcResponses(t, c.run.id) :
                 /\ threads' \in ConcHistoriesAfter(threads, th, resp)
                 /\ cturn' = [cturn EXCEPT ![t] =
                       [c EXCEPT !.run = resp,
                          !.invoked = @ \o outputs.ran,
                          !.iterations = @ + 1,
                          !.log = Append(@, Entry("runs.submit_tool_outputs",
                                           th, c.run.id, "", "",
                                           outputs.outputs, resp.status,
                                           resp.tool_calls))]]
       /\ UNCHANGED <<disp_vars, reg_vars, fac_vars, pc, thread_id,
                      user_message, thread, run, outcome, invoked, log,
                      iterations, tracing>>

conc_loop_poll(t) ==
    LET c == cturn[t]
        th == ConcThread(t)
    IN /\ c.pc = "loop"
       /\ LoopContinues(c.run.status)
       /\ ~NeedsAction(c.run.status)
       /\ c.iterations < MaxConcIterations
       /\ \E resp \in ConcResponses(t, c.run.id) :
            /\ threads' \in ConcHistoriesAfter(threads, th, resp)
            /\ cturn' = [cturn EXCEPT ![t] =
                  [c EXCEPT !.run = resp, !.iterations = @ + 1,
                     !.log = Append(@, Entry("runs.retrieve", th, c.run.id,
                                      "", "", <<>>, resp.status,
                                      resp.tool_calls))]]
       /\ UNCHANGED <<disp_vars, reg_vars, fac_vars, pc, thread_id,
                      user_message, thread, run, outcome, invoked, log,
                      iterations, tracing>>

conc_fetch_final(t) ==
    LET c == cturn[t]
        th == ConcThread(t)
        msgs == ListMessages(threads[th].msgs, "asc")
    IN /\ c.pc = "loop"
       /\ ~LoopContinues(c.run.status)
       /\ cturn' = [cturn EXCEPT ![t] =
             [c EXCEPT !.pc = "done",
                !.outcome = IF msgs = <<>> THEN Raised(<<"IndexError">>)
                            ELSE Returned(final_text(msgs)),
                !.log = Append(@, Entry("messages.list", th, "none", "",
                                 "asc", <<>>, "ok", <<>>))]]
       /\ UNCHANGED <<disp_vars, reg_vars, fac_vars, run_vars>>

\* Turn 1 continues the existing thread t1 or starts a new one; turn 2
\* starts a new one.
ConcInit ==
    /\ \/ /\ cturn = [t \in Turns |-> ConcLocals("None", ConcMessage(t))]
          /\ threads = [th \in ThreadIds |-> NoThread]
       \/ /\ cturn = [t \in Turns |->
                        ConcLocals(IF t = 1 THEN "t1" ELSE "None",
                                   ConcMessage(t))]
          /\ threads = [th \in ThreadIds |->
                          IF th = "t1"
                          THEN [exists |-> TRUE, msgs |-> OldHistory]
                          ELSE NoThread]
    /\ RunLocalsIdle
    /\ DispIdle
    /\ RegIdle
    /\ FacIdle

ConcNext ==
    \E t \in Turns :
        \/ conc_ensure_thread(t)
        \/ conc_post_message(t)
        \/ conc_start(t)
        \/ conc_loop_requires_action(t)
        \/ conc_loop_poll(t)
        \/ conc_fetch_final(t)

ConcSpec == ConcInit /\ [][ConcNext]_vars

OwnRunEntries(t) ==
    {i \in DOMAIN cturn[t].log : cturn[t].log[i].op = "runs.create"}

OwnTexts(t) ==
    {cturn[t].user_message}
    \cup {ConcReplyText(cturn[t].log[i].run) : i \in OwnRunEntries(t)}
    \cup (IF cturn[t].thread_id = "None" THEN {}
          ELSE {OldHistory[k].content[1].text.value : k \in DOMAIN OldHistory})

\* C14: two turns on different threads, interleaved at every remote call:
\* every remote call of a turn carries the thread id that turn resolved and
\* the id of the run that turn started, a submission carries the call ids
\* of that turn's latest observation, the thread of a turn holds no message
\* of the other turn, and the text a turn returns is the last message of
\* its own thread.
C14_TurnsDoNotInterfere ==
    /\ \A t, u \in Turns :
          (t # u /\ cturn[t].thread # "none") =>
              cturn[t].thread # cturn[u].thread
    /\ \A t \in Turns :
          LET c == cturn[t]
          IN /\ \A i \in DOMAIN c.log :
                   /\ c.log[i].op \in ThreadOps =>
                         /\ c.log[i].thread = c.thread
                         /\ c.log[i].thread = c.log[1].thread
                   /\ c.log[i].op \in LoopOps =>
                         /\ c.log[i].run = c.log[3].run
                         /\ c.log[3].op = "runs.create"
                   /\ c.log[i].op = "runs.submit_tool_outputs" =>
                         /\ OutputIds(c.log[i].tool_outputs)
                              = CallIdsOf(c.log[i - 1].tool_calls)
                         /\ \A u \in Turns : u # t =>
                               OutputIds(c.log[i].tool_outputs)
                                   \cap IssuedIds(cturn[u].log) = {}
             /\ c.thread # "none" =>
                   \A k \in DOMAIN threads[c.thread].msgs :
                       threads[c.thread].msgs[k].content[1].text.value
                           \in OwnTexts(t)
             /\ (c.pc = "done" /\ c.outcome.kind = "returned") =>
                   /\ c.outcome.text
                        = final_text(threads[c.thread].msgs)
                   /\ c.outcome.text \in OwnTexts(t)

C14_Witness ==
    /\ \A t \in Turns :
          /\ cturn[t].pc = "done"
          /\ cturn[t].outcome.kind = "returned"
          /\ \E i \in DOMAIN cturn[t].log :
                cturn[t].log[i].op = "runs.submit_tool_outputs"
    /\ cturn[1].outcome.text = "answer of r1"
    /\ cturn[2].outcome.text = "answer of r2"

-----------------------------------------------------------------------------
(* LendingBotPipeline.__init__ and _index_temp_files *)

\* A path of temp_files, and whether a file is there.
Paths ==
    {[path |-> "rates.pdf", exists |-> TRUE],
     [path |-> "missing.docx", exists |-> FALSE]}

\* Status of a vector store as the service reports it.
StoreStatuses == {"in_progress", "completed", "failed"}

FEntry(op, arg, status) == [op |-> op, arg |-> arg, status |-> status]

\* while vs.status != "completed"
StorePending(status) == status # "completed"

\* tool_resources of assistants.create: the vector store ids bound to
\* file_search ({} when vector_store_id is None)
ToolResources(vsid) == IF vsid # "None" THEN <<vsid>> ELSE <<>>

\* Steps 1 and 2 of __init__: the registry, the client, `if temp_files`.
init_begin ==
    /\ fpc = "new"
    /\ tools' = default
    /\ reg_hist' = DefaultCalls
    /\ fpc' = IF temp_files # <<>> THEN "upload" ELSE "assistant"
    /\ UNCHANGED <<rpc, reg_exc, reg_calls>>
    /\ UNCHANGED <<temp_files, vector_store_id, uploaded_ids, handles, vs,
                   polls, flog, fexc, assistant, facade_calls>>
    /\ UNCHANGED <<disp_vars, run_vars, conc_vars>>

\* One pass of `for p in files`: exists(), open(), files.create().  The
\* file object is referenced by nothing once files.create has returned or
\* raised and is never closed by the code: whether it is still open then is
\* up to the garbage collector.
index_upload ==
    /\ fpc = "upload"
    /\ Len(uploaded_ids) < Len(temp_files)
    /\ LET p == temp_files[Len(uploaded_ids) + 1]
       IN IF ~p.exists
          THEN /\ fexc' = "FileNotFoundError"
               /\ fpc' = "raised"
               /\ UNCHANGED <<uploaded_ids, handles, flog>>
          ELSE /\ handles' \in {handles, handles + 1}
               /\ \/ /\ uploaded_ids' = Append(uploaded_ids,
                                               Len(uploaded_ids) + 1)
                     /\ flog' = Append(flog, FEntry("files.create", p.path,
                                                    "ok"))
                     /\ UNCHANGED <<fpc, fexc>>
                  \/ /\ flog' = Append(flog, FEntry("files.create", p.path,
                                                    "error"))
                     /\ fexc' = "APIError"
                     /\ fpc' = "raised"
                     /\ UNCHANGED uploaded_ids
    /\ UNCHANGED <<temp_files, vector_store_id, vs, polls, assistant,
                   facade_calls>>
    /\ UNCHANGED <<disp_vars, run_vars, conc_vars, reg_vars>>

\* vector_stores.create(name="temp_vs", file_ids=uploaded_ids)
index_create_store ==
    /\ fpc = "upload"
    /\ Len(uploaded_ids) = Len(temp_files)
    /\ \E st \in StoreStatuses :
         /\ vs' = [id |-> "vs_temp", status |-> st]
         /\ flog' = Append(flog, FEntry("vector_stores.create", "vs_temp",
                                        st))
    /\ fpc' = "poll"
    /\ UNCHANGED <<temp_files, vector_store_id, uploaded_ids, handles, polls,
                   fexc, assistant, facade_calls>>
    /\ UNCHANGED <<disp_vars, run_vars, conc_vars, reg_vars>>

\* One pass of the polling loop: vector_stores.retrieve(vs.id)
index_poll ==
    /\ fpc = "poll"
    /\ StorePending(vs.status)
    /\ polls < MaxIngestPolls
    /\ \E st \in StoreStatuses :
         /\ vs' = [id |-> vs.id, status |-> st]
         /\ flog' = Append(flog, FEntry("vector_stores.retrieve", vs.id, st))
    /\ polls' = polls + 1
    /\ UNCHANGED <<fpc, temp_files, vector_store_id, uploaded_ids, handles,
                   fexc, assistant, facade_calls>>
    /\ UNCHANGED <<disp_vars, run_vars, conc_vars, reg_vars>>

\* return vs.id, assigned to vector_store_id in __init__
index_return ==
    /\ fpc = "poll"
    /\ ~StorePending(vs.status)
    /\ vector_store_id' = vs.id
    /\ fpc' = "assistant"
    /\ UNCHANGED <<temp_files, uploaded_ids, handles, vs, polls, flog, fexc,
                   assistant, facade_calls>>
    /\ UNCHANGED <<disp_vars, run_vars, conc_vars, reg_vars>>

\* Step 3: assistants.create(tools=..., tool_resources=...)
init_create_assistant ==
    /\ fpc = "assistant"
    /\ assistant' = [created |-> TRUE, tools |-> openai_tools(tools),
                     vector_store_ids |-> ToolResources(vector_store_id)]
    /\ flog' = Append(flog, FEntry("assistants.create", vector_store_id,
                                   "ok"))
    /\ fpc' = "glue"
    /\ UNCHANGED <<temp_files, vector_store_id, uploaded_ids, handles, vs,
                   polls, fexc, facade_calls>>
    /\ UNCHANGED <<disp_vars, run_vars, conc_vars, reg_vars>>

\* Haystack components, ToolDispatcher and AssistantRunner are constructed.
init_glue ==
    /\ fpc = "glue"
    /\ fpc' = "built"
    /\ UNCHANGED <<temp_files, vector_store_id, uploaded_ids, handles, vs,
                   polls, flog, fexc, assistant, facade_calls>>
    /\ UNCHANGED <<disp_vars, run_vars, conc_vars, reg_vars>>

IngestInit ==
    /\ fpc = "new"
    /\ temp_files \in SeqsUpTo(Paths, MaxFiles)
    /\ vector_store_id \in {"None", "vs_old"}
    /\ uploaded_ids = <<>>
    /\ handles = 0
    /\ vs = NoStore
    /\ polls = 0
    /\ flog = <<>>
    /\ fexc = "none"
    /\ assistant = NoAssistant
    /\ facade_calls = 0
    /\ RunIdle
    /\ DispIdle
    /\ RegIdle
    /\ ConcIdle

IngestNext ==
    \/ init_begin
    \/ index_upload
    \/ index_create_store
    \/ index_poll
    \/ index_return
    \/ init_create_assistant
    \/ init_glue

IngestSpec == IngestInit /\ [][IngestNext]_vars

StoreOps == {"vector_stores.create", "vector_stores.retrieve"}

\* C16: the ingestion polling stops as soon as the index is reported ready
\* or failed: no status retrieve follows such a report; a failed index
\* ends __init__ with IndexingFailedError; a ready index has its id bound
\* into the assistant's retrieval configuration before the runner exists.
C16_PollingStopsOnReadyOrFailed ==
    /\ \A i, j \in DOMAIN flog :
          (i < j /\ flog[i].op \in StoreOps
                 /\ flog[i].status \in {"completed", "failed"}) =>
              flog[j].op # "vector_stores.retrieve"
    /\ (\E i \in DOMAIN flog :
           flog[i].op \in StoreOps /\ flog[i].status = "failed") =>
          /\ ~assistant.created
          /\ fpc \in {"poll", "raised"}
          /\ fpc = "raised" => fexc = "IndexingFailedError"
    /\ (fpc \in {"glue", "built"} /\ temp_files # <<>>) =>
          /\ vs.status = "completed"
          /\ assistant.vector_store_ids = <<vs.id>>

\* C18: when _index_temp_files has returned or raised, none of the file
\* objects it opened is still open.
C18_HandlesClosedOnExit ==
    fpc \in {"raised", "assistant", "glue", "built"} => handles = 0

-----------------------------------------------------------------------------
(* LendingBotPipeline.run: the turns made through one facade *)

\* Variant: the facade hands the thread of its previous turn to the runner.
FacadeThreadArgLast == IF thread = "none" THEN "None" ELSE thread

\* self.runner.run(prompt): thread_id takes its default, None
FacadeThreadArg == "None"

\* run(prompt): the preprocessing result is discarded, then runner.run is
\* entered; the steps of runner.run are the actions of AssistantRunner.run.
\* The log of the service and the calls made by the dispatcher accumulate
\* over the turns.
pipeline_run ==
    /\ fpc = "built"
    /\ pc \in {"idle", "done"}
    /\ facade_calls < MaxFacadeCalls
    /\ facade_calls' = facade_calls + 1
    /\ \E prompt \in UserMessages : user_message' = prompt
    /\ thread_id' = FacadeThreadArg
    /\ pc' = "start"
    /\ thread' = "none"
    /\ run' = NoRun
    /\ outcome' = NoOutcome
    /\ iterations' = 0
    /\ UNCHANGED <<invoked, log, tracing, threads>>
    /\ UNCHANGED <<fpc, temp_files, vector_store_id, uploaded_ids, handles,
                   vs, polls, flog, fexc, assistant>>
    /\ UNCHANGED <<disp_vars, reg_vars, conc_vars>>

\* A facade constructed without temp_files, before its first run().
FacadeInit ==
    /\ fpc = "built"
    /\ temp_files = <<>>
    /\ vector_store_id \in {"None", "vs_old"}
    /\ uploaded_ids = <<>>
    /\ handles = 0
    /\ vs = NoStore
    /\ polls = 0
    /\ flog = <<FEntry("assistants.create", vector_store_id, "ok")>>
    /\ fexc = "none"
    /\ assistant = [created |-> TRUE, tools |-> openai_tools(default),
                    vector_store_ids |-> ToolResources(vector_store_id)]
    /\ facade_calls = 0
    /\ rpc = "idle"
    /\ tools = default
    /\ reg_exc = "none"
    /\ reg_calls = 0
    /\ reg_hist = DefaultCalls
    /\ RunIdle
    /\ DispIdle
    /\ ConcIdle

FacadeNext ==
    \/ pipeline_run
    \/ run_ensure_thread
    \/ run_post_message
    \/ run_start
    \/ run_loop_requires_action
    \/ run_loop_poll
    \/ run_fetch_final

FacadeSpec == FacadeInit /\ [][FacadeNext]_vars

\* The facade calls whose thread has been resolved.
ResolvedCalls == IF pc = "start" THEN facade_calls - 1 ELSE facade_calls

CreatedThreads == {log[i].thread : i \in {j \in DOMAIN log :
                                            log[j].op = "threads.create"}}

UserMessagesIn(msgs) ==
    Cardinality({i \in DOMAIN msgs : msgs[i].role = "user"})

\* C20: the facade never continues a conversation: each call enters the
\* runner without a thread id, the threads created are as many as the calls
\* and all different, no thread is retrieved, and the thread of a turn holds
\* nothing of an earlier turn: it is empty when the turn posts its message
\* and no thread ever holds two user messages.
C20_FacadeNeverContinues ==
    fpc = "built" =>
       /\ pc \notin {"idle"} => thread_id = "None"
       /\ Count("threads.create") = ResolvedCalls
       /\ Cardinality(CreatedThreads) = ResolvedCalls
       /\ Count("threads.retrieve") = 0
       /\ pc = "post" => threads[thread].msgs = <<>>
       /\ \A t \in ThreadIds : UserMessagesIn(threads[t].msgs) <= 1

\* Two facade calls have run to their end, the second one returning a text.
C20_Witness ==
    /\ fpc = "built"
    /\ facade_calls = 2
    /\ pc = "done"
    /\ outcome.kind = "returned"
    /\ Count("threads.create") = 2
    /\ Count("messages.create") = 2

====
